---------------------------- MODULE Spec2Model ----------------------------
(* Target group health monitor (src/lambda/lambda_function.py): the Lambda *)
(* entry point, its three handlers, the probe, the Slack notifier and the  *)
(* EventBridge retrigger rule it arms and disarms.                         *)
EXTENDS Integers, Sequences, FiniteSets, TLC

VARIABLES
    now,              \* wall clock read by datetime.now(timezone.utc)
    registry,         \* the target group's TargetHealthDescriptions (one State per target)
    rule,             \* the EventBridge rule target-group-health-retrigger-<name>
    SLACK_BOT_TOKEN,  \* credential read from the environment at import
    inv,              \* the invocation that has just returned: its event, snapshot, calls, outcome
    running           \* invocations in progress side by side, and the most recent probe

vars == <<now, registry, rule, SLACK_BOT_TOKEN, inv, running>>

-----------------------------------------------------------------------------
(* Bounds *)

MaxTime == 1

\* the longest TargetHealthDescriptions list the probe is checked on
MaxTargets == 4

-----------------------------------------------------------------------------
(* Values *)

\* Python's None (a JSON null, or a parameter left at its default)
NullVal == "<None>"

\* a key that the dict does not hold
Absent == "<absent>"

\* original_timestamp when the detail holds none (dict.get gives None)
NoTs == 0 - 1

SLACK_CHANNEL == "C09DH2G0K0Q"

TARGET_GROUP_ARN ==
    "arn:aws:elasticloadbalancing:ca-central-1:778983355679:targetgroup/osiris-prod-load-balancer/fb62f239363e4741"

TARGET_GROUP_NAME == "fb62f239363e4741"

OtherChannel == "C_INCIDENTS"

AlarmNameValue == "UnhealthyTargetsAlarm"

HealthStates == {"healthy", "unhealthy", "draining"}

Times == 0 .. MaxTime

\* Python truthiness of the values the handlers test with `or` / `not`
Falsy == {NullVal, ""}

\* a or b
PyOr(a, b) == IF a \in Falsy THEN b ELSE a

\* d.get(key, default) on a field that may be absent
DictGet(v, default) == IF v = Absent THEN default ELSE v

-----------------------------------------------------------------------------
(* Names visible to setup_retrigger: its parameters and locals, and the    *)
(* module's globals. The function body reads `context`.                    *)

ModuleGlobals ==
    {"json", "boto3", "requests", "os", "logging", "datetime", "timezone",
     "Dict", "Any", "Optional", "logger", "cloudwatch", "elbv2", "events",
     "lambda_client", "TARGET_GROUP_ARN", "TARGET_GROUP_NAME",
     "SLACK_WEBHOOK_URL", "SLACK_BOT_TOKEN", "SLACK_CHANNEL",
     "lambda_handler", "handle_alarm_event", "handle_retrigger_event",
     "handle_direct_check", "check_target_group_health",
     "create_unhealthy_message", "create_still_unhealthy_message",
     "create_recovery_message", "create_health_summary_message",
     "send_slack_message", "setup_retrigger", "disable_retrigger_rule"}

SetupRetriggerLocals == {"health_status", "channel", "rule_name", "current_time", "e"}

\* LEGB lookup of a name read inside setup_retrigger; a miss raises NameError
NameResolves(name) == name \in (SetupRetriggerLocals \cup ModuleGlobals)

-----------------------------------------------------------------------------
(* Events *)

NoDetail == [original_timestamp |-> NoTs, channel |-> Absent, target_group_arn |-> Absent]

NoAlarm == "<no Sns>"

\* One SNS record: Sns is missing/empty, or carries a Message whose
\* NewStateValue is sns (Absent: the Message holds no NewStateValue)
SnsStates == {"ALARM", "OK", Absent}

MkEvent(src, dt, recs, det) ==
    [source |-> src, detail_type |-> dt, Records |-> recs, detail |-> det]

DirectEvents ==
    { MkEvent(Absent, Absent, <<>>, NoDetail),
      MkEvent("aws.events", "Scheduled Event", <<>>, NoDetail),
      MkEvent(Absent, Absent, <<NoAlarm>>, NoDetail) }

AlarmEvents == { MkEvent(Absent, Absent, <<s>>, NoDetail) : s \in SnsStates }

\* The detail of a retrigger event: the timestamp and channel may be
\* missing, and the channel may be a JSON null
Details ==
    [original_timestamp : {NoTs} \cup Times, channel : {Absent, OtherChannel},
     target_group_arn : {TARGET_GROUP_ARN}]
    \cup {[original_timestamp |-> 0, channel |-> NullVal,
           target_group_arn |-> TARGET_GROUP_ARN]}

\* The last one also holds an SNS record: it is still a retrigger event
RecheckEvents ==
    { MkEvent("aws.events", "Health Check Retrigger", <<>>, d) : d \in Details }
    \cup { MkEvent("aws.events", "Health Check Retrigger", <<"ALARM">>,
                   [original_timestamp |-> 0, channel |-> OtherChannel,
                    target_group_arn |-> TARGET_GROUP_ARN]) }

Events == DirectEvents \cup AlarmEvents \cup RecheckEvents

-----------------------------------------------------------------------------
(* The record of one invocation's calls, in order *)

NoMsg ==
    [phase |-> "", alarm |-> "", original |-> NoTs, time |-> NoTs,
     total |-> 0, healthy |-> 0, unhealthy |-> 0, targets |-> <<>>]

\* a function of the module entered, or a boto3 / requests call and its outcome
Entry(op, ok) ==
    [op |-> op, ok |-> ok, msg |-> NoMsg, arg_channel |-> NullVal,
     channel |-> NullVal, posted |-> FALSE]

Log(w, e) == [w EXCEPT !.calls = Append(@, e)]

NoSnapshot ==
    [total_targets |-> 0, healthy_count |-> 0, unhealthy_count |-> 0,
     unhealthy_targets |-> <<>>, timestamp |-> NoTs]

-----------------------------------------------------------------------------
(* check_target_group_health *)

RECURSIVE ProbeLoop_only_unhealthy(_, _, _, _)
\* As ProbeLoop, with the else branch narrowed to the state "unhealthy":
\* a target in another state is neither counted nor listed
ProbeLoop_only_unhealthy(resp, i, healthy_targets, unhealthy_targets) ==
    IF i > Len(resp)
    THEN [healthy_targets |-> healthy_targets, unhealthy_targets |-> unhealthy_targets]
    ELSE IF resp[i] = "healthy"
         THEN ProbeLoop_only_unhealthy(resp, i + 1, healthy_targets + 1, unhealthy_targets)
         ELSE IF resp[i] = "unhealthy"
              THEN ProbeLoop_only_unhealthy(resp, i + 1, healthy_targets,
                        Append(unhealthy_targets, [target_id |-> i, state |-> resp[i]]))
              ELSE ProbeLoop_only_unhealthy(resp, i + 1, healthy_targets, unhealthy_targets)

RECURSIVE ProbeLoop(_, _, _, _)
\* for target in response['TargetHealthDescriptions']: count or append
ProbeLoop(resp, i, healthy_targets, unhealthy_targets) ==
    IF i > Len(resp)
    THEN [healthy_targets |-> healthy_targets, unhealthy_targets |-> unhealthy_targets]
    ELSE IF resp[i] = "healthy"
         THEN ProbeLoop(resp, i + 1, healthy_targets + 1, unhealthy_targets)
         ELSE ProbeLoop(resp, i + 1, healthy_targets,
                        Append(unhealthy_targets, [target_id |-> i, state |-> resp[i]]))

HealthStatus(resp, t) ==
    LET r == ProbeLoop(resp, 1, 0, <<>>)
    IN [total_targets |-> Len(resp),
        healthy_count |-> r.healthy_targets,
        unhealthy_count |-> Len(r.unhealthy_targets),
        unhealthy_targets |-> r.unhealthy_targets,
        timestamp |-> t]

\* As check_target_group_health, with the except clause returning instead
\* of raising: the failure reads as a group without targets
check_target_group_health_swallow(w, resp, orc, t) ==
    IF orc.describe_target_health
    THEN [w |-> Log(w, Entry("describe_target_health", TRUE)),
          health_status |-> HealthStatus(resp, t)]
    ELSE [w |-> Log(w, Entry("describe_target_health", FALSE)),
          health_status |-> NoSnapshot]

\* Returns the world with the probe logged, and the snapshot; a failing
\* describe_target_health is logged and re-raised.
check_target_group_health(w, resp, orc, t) ==
    IF orc.describe_target_health
    THEN [w |-> Log(w, Entry("describe_target_health", TRUE)),
          health_status |-> HealthStatus(resp, t)]
    ELSE [w |-> [Log(w, Entry("describe_target_health", FALSE)) EXCEPT !.exc = "ProbeError"],
          health_status |-> NoSnapshot]

-----------------------------------------------------------------------------
(* Message composers *)

Compose(phase, alarm, original, health_status, t) ==
    [phase |-> phase, alarm |-> alarm, original |-> original, time |-> t,
     total |-> health_status.total_targets,
     healthy |-> health_status.healthy_count,
     unhealthy |-> health_status.unhealthy_count,
     targets |-> health_status.unhealthy_targets]

create_unhealthy_message(health_status, alarm_name, t) ==
    Compose("InitialAlert", alarm_name, NoTs, health_status, t)

create_still_unhealthy_message(health_status, original_timestamp, t) ==
    Compose("StillUnhealthy", "", original_timestamp, health_status, t)

\* the recovery text gives the counts but lists no targets
create_recovery_message(health_status, original_timestamp, t) ==
    [Compose("Recovered", "", original_timestamp, health_status, t)
        EXCEPT !.targets = <<>>]

create_health_summary_message(health_status, t) ==
    [Compose("Summary", "", NoTs, health_status, t) EXCEPT !.targets = <<>>]

FalseAlarmMessage(alarm_name, t) ==
    [NoMsg EXCEPT !.phase = "FalseAlarm", !.alarm = alarm_name, !.time = t]

ErrorMessage(exc, t) ==
    [NoMsg EXCEPT !.phase = "Error", !.alarm = exc, !.time = t]

-----------------------------------------------------------------------------
(* send_slack_message: never raises; False without a token, on a transport *)
(* error and on a reply that is not ok                                     *)

\* As send_slack_message, without the try/except around the post: a
\* transport error or a reply that is not ok raises
send_slack_message_raises(w, message, channel, token, orc) ==
    IF token \in Falsy
    THEN Log(w, [Entry("send_slack_message", FALSE)
                    EXCEPT !.msg = message, !.arg_channel = channel])
    ELSE [Log(w, [Entry("send_slack_message", orc.chat_postMessage)
                    EXCEPT !.msg = message, !.arg_channel = channel,
                           !.channel = PyOr(channel, SLACK_CHANNEL),
                           !.posted = TRUE])
            EXCEPT !.exc = IF orc.chat_postMessage THEN @ ELSE "SlackError"]

send_slack_message(w, message, channel, token, orc) ==
    IF token \in Falsy
    THEN Log(w, [Entry("send_slack_message", FALSE)
                    EXCEPT !.msg = message, !.arg_channel = channel])
    ELSE Log(w, [Entry("send_slack_message", orc.chat_postMessage)
                    EXCEPT !.msg = message, !.arg_channel = channel,
                           !.channel = PyOr(channel, SLACK_CHANNEL),
                           !.posted = TRUE])

-----------------------------------------------------------------------------
(* The EventBridge rule and the three API calls made on it *)

\* f"target-group-health-retrigger-{TARGET_GROUP_NAME}"
RULE_NAME == "target-group-health-retrigger-fb62f239363e4741"

\* The rule does not exist until put_rule creates it: the stack's own rule
\* has a generated name and is never addressed by the function.
NoRule == [Name |-> RULE_NAME, exists |-> FALSE, State |-> "DISABLED", Targets |-> <<>>]

\* events.put_rule(Name, ScheduleExpression, State="ENABLED"): creates the
\* rule or updates it in place; its targets are kept
put_rule(r) == [r EXCEPT !.exists = TRUE, !.State = "ENABLED"]

\* events.put_targets(Rule, Targets=[{'Id': '1', ...}]): the target of that
\* Id is replaced, or added when there is none
put_targets(r, input) ==
    LET t == [Id |-> "1", Input |-> input]
    IN IF \E i \in 1 .. Len(r.Targets) : r.Targets[i].Id = "1"
       THEN [r EXCEPT !.Targets =
                [i \in 1 .. Len(r.Targets) |->
                    IF r.Targets[i].Id = "1" THEN t ELSE r.Targets[i]]]
       ELSE [r EXCEPT !.Targets = Append(@, t)]

\* events.disable_rule(Name): ResourceNotFoundException when there is no
\* such rule
disable_rule(r) == [r EXCEPT !.State = "DISABLED"]

\* The Input of the target: json.dumps of the retrigger event
RetriggerInput(current_time, channel) ==
    MkEvent("aws.events", "Health Check Retrigger", <<>>,
            [original_timestamp |-> current_time,
             channel |-> PyOr(channel, SLACK_CHANNEL),
             target_group_arn |-> TARGET_GROUP_ARN])

\* As setup_retrigger, with the except clause re-raising
setup_retrigger_reraise(w, health_status, channel, orc, t) ==
    LET w1 == Log(w, [Entry("setup_retrigger", TRUE) EXCEPT !.arg_channel = channel])
        current_time == t
    IN IF ~orc.put_rule
       THEN [Log(w1, Entry("put_rule", FALSE)) EXCEPT !.exc = "ClientError"]
       ELSE LET w2 == [Log(w1, Entry("put_rule", TRUE)) EXCEPT !.rule = put_rule(@)]
            IN IF ~NameResolves("context")
               THEN [Log(w2, Entry("NameError", FALSE)) EXCEPT !.exc = "NameError"]
               ELSE IF ~orc.put_targets
                    THEN [Log(w2, Entry("put_targets", FALSE)) EXCEPT !.exc = "ClientError"]
                    ELSE [Log(w2, Entry("put_targets", TRUE))
                            EXCEPT !.rule = put_targets(@, RetriggerInput(current_time, channel))]

\* setup_retrigger(health_status, channel): every exception is logged and
\* swallowed
setup_retrigger(w, health_status, channel, orc, t) ==
    LET w1 == Log(w, [Entry("setup_retrigger", TRUE) EXCEPT !.arg_channel = channel])
        current_time == t
    IN IF ~orc.put_rule
       THEN Log(w1, Entry("put_rule", FALSE))
       ELSE LET w2 == [Log(w1, Entry("put_rule", TRUE)) EXCEPT !.rule = put_rule(@)]
            IN IF ~NameResolves("context")
               THEN Log(w2, Entry("NameError", FALSE))
               ELSE IF ~orc.put_targets
                    THEN Log(w2, Entry("put_targets", FALSE))
                    ELSE [Log(w2, Entry("put_targets", TRUE))
                            EXCEPT !.rule = put_targets(@, RetriggerInput(current_time, channel))]

\* As disable_retrigger_rule, with the except clause re-raising
disable_retrigger_rule_reraise(w, orc) ==
    LET w1 == Log(w, Entry("disable_retrigger_rule", TRUE))
    IN IF orc.disable_rule /\ w.rule.exists
       THEN [Log(w1, Entry("disable_rule", TRUE)) EXCEPT !.rule = disable_rule(@)]
       ELSE [Log(w1, Entry("disable_rule", FALSE)) EXCEPT !.exc = "ClientError"]

\* disable_retrigger_rule(): every exception is logged and swallowed
disable_retrigger_rule(w, orc) ==
    LET w1 == Log(w, Entry("disable_retrigger_rule", TRUE))
    IN IF orc.disable_rule /\ w.rule.exists
       THEN [Log(w1, Entry("disable_rule", TRUE)) EXCEPT !.rule = disable_rule(@)]
       ELSE Log(w1, Entry("disable_rule", FALSE))

-----------------------------------------------------------------------------
(* The handlers *)

\* As handle_alarm_event, with the test alarm_state != 'OK': a message
\* without a NewStateValue is handled as an alarm
handle_alarm_event_not_ok(w, event, resp, token, orc, t) ==
    LET w1 == Log(w, Entry("handle_alarm_event", TRUE))
        alarm_name == AlarmNameValue
        alarm_state == DictGet(event.Records[1], "Unknown")
    IN IF alarm_state # "OK"
       THEN LET p == check_target_group_health(w1, resp, orc, t)
                health_status == p.health_status
            IN IF p.w.exc # "" THEN p.w
               ELSE IF health_status.unhealthy_count > 0
                    THEN setup_retrigger(
                             send_slack_message(p.w,
                                 create_unhealthy_message(health_status, alarm_name, t),
                                 NullVal, token, orc),
                             health_status, NullVal, orc, t)
                    ELSE send_slack_message(p.w, FalseAlarmMessage(alarm_name, t),
                                            NullVal, token, orc)
       ELSE w1

\* As handle_alarm_event, with the test unhealthy_count >= 0
handle_alarm_event_ge(w, event, resp, token, orc, t) ==
    LET w1 == Log(w, Entry("handle_alarm_event", TRUE))
        alarm_name == AlarmNameValue
        alarm_state == DictGet(event.Records[1], "Unknown")
    IN IF alarm_state = "ALARM"
       THEN LET p == check_target_group_health(w1, resp, orc, t)
                health_status == p.health_status
            IN IF p.w.exc # "" THEN p.w
               ELSE IF health_status.unhealthy_count >= 0
                    THEN setup_retrigger(
                             send_slack_message(p.w,
                                 create_unhealthy_message(health_status, alarm_name, t),
                                 NullVal, token, orc),
                             health_status, NullVal, orc, t)
                    ELSE send_slack_message(p.w, FalseAlarmMessage(alarm_name, t),
                                            NullVal, token, orc)
       ELSE w1

handle_alarm_event(w, event, resp, token, orc, t) ==
    LET w1 == Log(w, Entry("handle_alarm_event", TRUE))
        alarm_name == AlarmNameValue
        alarm_state == DictGet(event.Records[1], "Unknown")
    IN IF alarm_state = "ALARM"
       THEN LET p == check_target_group_health(w1, resp, orc, t)
                health_status == p.health_status
            IN IF p.w.exc # "" THEN p.w
               ELSE IF health_status.unhealthy_count > 0
                    THEN setup_retrigger(
                             send_slack_message(p.w,
                                 create_unhealthy_message(health_status, alarm_name, t),
                                 NullVal, token, orc),
                             health_status, NullVal, orc, t)
                    ELSE send_slack_message(p.w, FalseAlarmMessage(alarm_name, t),
                                            NullVal, token, orc)
       ELSE w1

\* As handle_retrigger_event, with the call on the rule made before the
\* message is sent
handle_retrigger_event_act_first(w, event, resp, token, orc, t) ==
    LET w1 == Log(w, Entry("handle_retrigger_event", TRUE))
        detail == event.detail
        original_timestamp == detail.original_timestamp
        channel == DictGet(detail.channel, SLACK_CHANNEL)
        p == check_target_group_health(w1, resp, orc, t)
        health_status == p.health_status
    IN IF p.w.exc # "" THEN p.w
       ELSE IF health_status.unhealthy_count > 0
            THEN send_slack_message(
                     setup_retrigger(p.w, health_status, channel, orc, t),
                     create_still_unhealthy_message(health_status, original_timestamp, t),
                     channel, token, orc)
            ELSE send_slack_message(
                     disable_retrigger_rule(p.w, orc),
                     create_recovery_message(health_status, original_timestamp, t),
                     channel, token, orc)

\* As handle_retrigger_event, with the recovery branch arming again
\* instead of disarming
handle_retrigger_event_rearm(w, event, resp, token, orc, t) ==
    LET w1 == Log(w, Entry("handle_retrigger_event", TRUE))
        detail == event.detail
        original_timestamp == detail.original_timestamp
        channel == DictGet(detail.channel, SLACK_CHANNEL)
        p == check_target_group_health(w1, resp, orc, t)
        health_status == p.health_status
    IN IF p.w.exc # "" THEN p.w
       ELSE IF health_status.unhealthy_count > 0
            THEN setup_retrigger(
                     send_slack_message(p.w,
                         create_still_unhealthy_message(health_status, original_timestamp, t),
                         channel, token, orc),
                     health_status, channel, orc, t)
            ELSE setup_retrigger(
                     send_slack_message(p.w,
                         create_recovery_message(health_status, original_timestamp, t),
                         channel, token, orc),
                     health_status, channel, orc, t)

handle_retrigger_event(w, event, resp, token, orc, t) ==
    LET w1 == Log(w, Entry("handle_retrigger_event", TRUE))
        detail == event.detail
        original_timestamp == detail.original_timestamp
        channel == DictGet(detail.channel, SLACK_CHANNEL)
        p == check_target_group_health(w1, resp, orc, t)
        health_status == p.health_status
    IN IF p.w.exc # "" THEN p.w
       ELSE IF health_status.unhealthy_count > 0
            THEN setup_retrigger(
                     send_slack_message(p.w,
                         create_still_unhealthy_message(health_status, original_timestamp, t),
                         channel, token, orc),
                     health_status, channel, orc, t)
            ELSE disable_retrigger_rule(
                     send_slack_message(p.w,
                         create_recovery_message(health_status, original_timestamp, t),
                         channel, token, orc),
                     orc)

handle_direct_check(w, event, resp, token, orc, t) ==
    LET w1 == Log(w, Entry("handle_direct_check", TRUE))
        p == check_target_group_health(w1, resp, orc, t)
    IN IF p.w.exc # "" THEN p.w
       ELSE send_slack_message(p.w, create_health_summary_message(p.health_status, t),
                               NullVal, token, orc)

\* event.get('source') == 'aws.events' and event.get('detail-type') == ...
IsRetrigger(event) ==
    event.source = "aws.events" /\ event.detail_type = "Health Check Retrigger"

\* event.get('Records') and event.get('Records')[0].get('Sns')
IsAlarm(event) == event.Records # <<>> /\ event.Records[1] # NoAlarm

\* As Route, with the SNS test ahead of the retrigger test
Route_alarm_first(w, event, resp, token, orc, t) ==
    IF IsAlarm(event) THEN handle_alarm_event(w, event, resp, token, orc, t)
    ELSE IF IsRetrigger(event) THEN handle_retrigger_event(w, event, resp, token, orc, t)
    ELSE handle_direct_check(w, event, resp, token, orc, t)

Route(w, event, resp, token, orc, t) ==
    IF IsRetrigger(event) THEN handle_retrigger_event(w, event, resp, token, orc, t)
    ELSE IF IsAlarm(event) THEN handle_alarm_event(w, event, resp, token, orc, t)
    ELSE handle_direct_check(w, event, resp, token, orc, t)

\* lambda_handler: the world after the invocation; exc is the exception the
\* invoker sees ("" for a returned statusCode 200)
lambda_handler(r, event, resp, token, orc, t) ==
    LET w == Route([rule |-> r, calls |-> <<>>, exc |-> ""], event, resp, token, orc, t)
    IN IF w.exc # ""
       THEN send_slack_message(w, ErrorMessage(w.exc, t), NullVal, token, orc)
       ELSE w

-----------------------------------------------------------------------------
(* State machine *)

\* The outcome of each external call of one invocation
Oracles ==
    [describe_target_health : BOOLEAN, chat_postMessage : BOOLEAN,
     put_rule : BOOLEAN, put_targets : BOOLEAN, disable_rule : BOOLEAN]

\* Every external call succeeds, but Slack may still refuse the message
CallsSucceed ==
    { orc \in Oracles : orc.describe_target_health /\ orc.put_rule
                          /\ orc.put_targets /\ orc.disable_rule }

\* What describe_target_health may answer: no target, one target in each
\* state, three healthy targets, one healthy target beside two that are not
Responses ==
    { <<>>, <<"healthy">>, <<"unhealthy">>, <<"draining">>,
      <<"healthy", "healthy", "healthy">>,
      <<"healthy", "unhealthy", "draining">> }

NoInvocation ==
    [event |-> MkEvent(Absent, Absent, <<>>, NoDetail), pre |-> NoRule,
     snapshot |-> NoSnapshot, calls |-> <<>>, exc |-> "", done |-> FALSE]

\* The two invocations that may overlap: one started by the alarm, one by
\* a retrigger event
Procs == {"alarm", "recheck"}

AllOk ==
    [describe_target_health |-> TRUE, chat_postMessage |-> TRUE,
     put_rule |-> TRUE, put_targets |-> TRUE, disable_rule |-> TRUE]

\* An execution environment with no invocation in it
IdleProc ==
    [pc |-> "idle", event |-> MkEvent(Absent, Absent, <<>>, NoDetail),
     orc |-> AllOk, resp |-> <<>>, calls |-> <<>>, exc |-> ""]

NoRunning == [proc |-> [p \in Procs |-> IdleProc], recent |-> NoSnapshot]

Init ==
    /\ now = 0
    /\ registry \in Responses
    /\ rule = NoRule
    /\ SLACK_BOT_TOKEN \in {"", "xoxb-token"}
    /\ inv = NoInvocation
    /\ running = NoRunning

Probed(calls) ==
    \E i \in 1 .. Len(calls) : calls[i].op = "describe_target_health" /\ calls[i].ok

\* One invocation of the Lambda function, start to finish
Invoke(event, orcs) ==
    \E w \in { lambda_handler(rule, event, registry, SLACK_BOT_TOKEN, orc, now) :
               orc \in orcs } :
        /\ rule' = w.rule
        /\ inv' = [event |-> event, pre |-> rule,
                   snapshot |-> IF Probed(w.calls)
                                THEN HealthStatus(registry, now) ELSE NoSnapshot,
                   calls |-> w.calls, exc |-> w.exc, done |-> TRUE]
        /\ UNCHANGED <<now, registry, SLACK_BOT_TOKEN, running>>

\* An external invoker (the alarm's SNS topic, an operator, a test)
ExternalInvoke == \E event \in Events : Invoke(event, Oracles)

\* The rule's schedule elapses while it is enabled: each of its targets is
\* invoked with its Input
Fire(orcs) ==
    /\ rule.exists /\ rule.State = "ENABLED"
    /\ IF rule.Targets = <<>>
       THEN inv' = NoInvocation
            /\ UNCHANGED <<now, registry, rule, SLACK_BOT_TOKEN, running>>
       ELSE Invoke(rule.Targets[1].Input, orcs)

\* Targets change health, register or deregister
SetHealth ==
    /\ registry' \in Responses \ {registry}
    /\ inv' = NoInvocation
    /\ UNCHANGED <<now, rule, SLACK_BOT_TOKEN, running>>

Tick ==
    /\ now < MaxTime
    /\ now' = now + 1
    /\ inv' = NoInvocation
    /\ UNCHANGED <<registry, rule, SLACK_BOT_TOKEN, running>>

Next == ExternalInvoke \/ Fire(Oracles) \/ SetHealth \/ Tick

Spec == Init /\ [][Next]_vars

\* The alarm's notifications arrive, the probe and the scheduler calls
\* succeed, and the rule fires for as long as it is enabled
AlarmInvoke == \E event \in AlarmEvents : Invoke(event, CallsSucceed)

LiveNext == AlarmInvoke \/ Fire(CallsSucceed) \/ SetHealth \/ Tick

LiveSpec == Init /\ [][LiveNext]_vars /\ WF_vars(Fire(CallsSucceed))

\* The probe on every registry content up to MaxTargets targets: one
\* invocation that probes, from any such content
AllResponses == UNION { [1 .. n -> HealthStates] : n \in 0 .. MaxTargets }

ProbeInit ==
    /\ now = 0
    /\ registry \in AllResponses
    /\ rule = NoRule
    /\ SLACK_BOT_TOKEN = "xoxb-token"
    /\ inv = NoInvocation
    /\ running = NoRunning

ProbeInvoke == \E event \in DirectEvents : Invoke(event, Oracles)

ProbeSpec == ProbeInit /\ [][ProbeInvoke]_vars

-----------------------------------------------------------------------------
(* Overlapping invocations. Each runs lambda_handler one call at a time:   *)
(* the function entered, the probe, the post to Slack and each call on the *)
(* rule are separate steps, and the other invocation, or a change of       *)
(* target health, may come between two of them. Nothing is shared but the  *)
(* registry and the rule.                                                  *)

ConcEvents(p) ==
    IF p = "alarm"
    THEN { MkEvent(Absent, Absent, <<"ALARM">>, NoDetail) }
    ELSE { MkEvent("aws.events", "Health Check Retrigger", <<>>,
                   [original_timestamp |-> 0, channel |-> OtherChannel,
                    target_group_arn |-> TARGET_GROUP_ARN]) }

ConcInit ==
    /\ now = 0
    /\ registry \in Responses
    /\ rule = NoRule
    /\ SLACK_BOT_TOKEN = "xoxb-token"
    /\ inv = NoInvocation
    /\ running = NoRunning

\* The platform starts an invocation
ConcStart(p) ==
    /\ running.proc[p].pc = "idle"
    /\ \E event \in ConcEvents(p) :
          running' = [running EXCEPT !.proc[p] =
                         [IdleProc EXCEPT !.pc = "run", !.event = event]]
    /\ UNCHANGED <<now, registry, rule, SLACK_BOT_TOKEN, inv>>

\* What the call e of lambda_handler does to the rule it finds; w is the
\* handler run on that rule
RuleAfter(r, e, w) ==
    IF e.op = "put_rule" /\ e.ok THEN put_rule(r)
    ELSE IF e.op = "put_targets" /\ e.ok THEN [r EXCEPT !.Targets = w.rule.Targets]
    ELSE IF e.op = "disable_rule" /\ e.ok THEN disable_rule(r)
    ELSE r

\* The invocation makes its next call, or returns when none is left. The
\* probe reads the registry as it is at that moment; the calls on the rule
\* act on the rule as it is at theirs.
ConcStep(p) ==
    LET me == running.proc[p]
        w == lambda_handler(rule, me.event, me.resp, SLACK_BOT_TOKEN, me.orc, now)
        k == Len(me.calls)
    IN /\ me.pc = "run"
       /\ IF k = Len(w.calls)
          THEN /\ running' = [running EXCEPT !.proc[p].pc = "done",
                                             !.proc[p].exc = w.exc]
               /\ rule' = rule
          ELSE LET e == w.calls[k + 1]
                   probes == e.op = "describe_target_health" /\ e.ok
               IN /\ running' =
                        [running EXCEPT
                            !.proc[p].calls = Append(@, e),
                            !.proc[p].resp = IF probes THEN registry ELSE @,
                            !.recent = IF probes THEN HealthStatus(registry, now) ELSE @]
                  /\ rule' = RuleAfter(rule, e, w)
       /\ UNCHANGED <<now, registry, SLACK_BOT_TOKEN, inv>>

\* Targets change health while invocations run
ConcSetHealth ==
    /\ registry' \in Responses \ {registry}
    /\ UNCHANGED <<now, rule, SLACK_BOT_TOKEN, inv, running>>

ConcNext == (\E p \in Procs : ConcStart(p) \/ ConcStep(p)) \/ ConcSetHealth

ConcSpec == ConcInit /\ [][ConcNext]_vars

-----------------------------------------------------------------------------
(* Observations of an invocation *)

Ops(calls, ops) == SelectSeq(calls, LAMBDA e : e.op \in ops)

\* the notifications attempted: the calls of send_slack_message
Notes(calls) == Ops(calls, {"send_slack_message"})

Phases(calls) == [i \in 1 .. Len(Notes(calls)) |-> Notes(calls)[i].msg.phase]

\* the scheduler operations called: arm (setup_retrigger), disarm
SchedCalls(calls) ==
    [i \in 1 .. Len(Ops(calls, {"setup_retrigger", "disable_retrigger_rule"})) |->
        Ops(calls, {"setup_retrigger", "disable_retrigger_rule"})[i].op]

\* no boto3 call on the rule failed
SchedulerOk(calls) ==
    \A i \in 1 .. Len(calls) :
        calls[i].op \in {"put_rule", "put_targets", "disable_rule"} => calls[i].ok

ProbeFailed(calls) ==
    \E i \in 1 .. Len(calls) : calls[i].op = "describe_target_health" /\ ~calls[i].ok

\* The three event shapes, read off the payload
RecheckSignal(event) ==
    event.source = "aws.events" /\ event.detail_type = "Health Check Retrigger"

AlarmSignal(event) ==
    /\ ~RecheckSignal(event)
    /\ Len(event.Records) > 0
    /\ event.Records[1] # NoAlarm

DirectInvocation(event) == ~RecheckSignal(event) /\ ~AlarmSignal(event)

Alarming(event) == AlarmSignal(event) /\ event.Records[1] = "ALARM"

\* the trigger is armed with a context: enabled, one target, whose payload
\* is a RecheckSignal carrying the timestamp, the channel and the resource
ArmedWith(r, ts, ch) ==
    /\ r.exists /\ r.State = "ENABLED" /\ r.Name = RULE_NAME
    /\ Len(r.Targets) = 1
    /\ RecheckSignal(r.Targets[1].Input)
    /\ r.Targets[1].Input.detail.original_timestamp = ts
    /\ r.Targets[1].Input.detail.channel = ch
    /\ r.Targets[1].Input.detail.target_group_arn = TARGET_GROUP_ARN

-----------------------------------------------------------------------------
(* Claims *)

\* the invocation that has just returned probed and saw n unhealthy targets
SawUnhealthy == inv.done /\ Probed(inv.calls) /\ inv.snapshot.unhealthy_count > 0

SawHealthy == inv.done /\ Probed(inv.calls) /\ inv.snapshot.unhealthy_count = 0

\* C1: after an alarming AlarmSignal whose snapshot has unhealthy targets
\* (and no scheduler call failing), one InitialAlert has been attempted and
\* the trigger is enabled with a RecheckSignal payload that embeds the new
\* context: the alert's timestamp, the default channel, the target group.
C1_InitialAlertArms ==
    (Alarming(inv.event) /\ SawUnhealthy /\ SchedulerOk(inv.calls))
        => /\ Phases(inv.calls) = <<"InitialAlert">>
           /\ SchedCalls(inv.calls) = <<"setup_retrigger">>
           /\ ArmedWith(rule, inv.snapshot.timestamp, SLACK_CHANNEL)

\* C1, the part the code does: the alert is attempted, arm is called and
\* the rule is enabled
C1_AlertAndEnable ==
    (Alarming(inv.event) /\ SawUnhealthy /\ SchedulerOk(inv.calls))
        => /\ Phases(inv.calls) = <<"InitialAlert">>
           /\ SchedCalls(inv.calls) = <<"setup_retrigger">>
           /\ rule.exists /\ rule.State = "ENABLED"

\* C2: a RecheckSignal carrying (T0, C) whose snapshot has no unhealthy
\* target attempts one Recovered notification that references T0, on
\* channel C; disarm is called and arm is not; when disable_rule succeeds
\* the trigger is disabled at the end of the invocation.
C2_RecoveredDisarms ==
    (RecheckSignal(inv.event) /\ SawHealthy
        /\ inv.event.detail.channel = OtherChannel)
        => /\ Phases(inv.calls) = <<"Recovered">>
           /\ Notes(inv.calls)[1].msg.original = inv.event.detail.original_timestamp
           /\ Notes(inv.calls)[1].arg_channel = OtherChannel
           /\ Notes(inv.calls)[1].posted => Notes(inv.calls)[1].channel = OtherChannel
           /\ SchedCalls(inv.calls) = <<"disable_retrigger_rule">>
           /\ (\E i \in 1 .. Len(inv.calls) :
                  inv.calls[i].op = "disable_rule" /\ inv.calls[i].ok)
                => (rule.exists /\ rule.State = "DISABLED")

C2_Witness ==
    /\ RecheckSignal(inv.event) /\ SawHealthy
    /\ inv.event.detail.channel = OtherChannel
    /\ inv.event.detail.original_timestamp = 0
    /\ now > 0
    /\ inv.pre.exists /\ inv.pre.State = "ENABLED"
    /\ Notes(inv.calls)[1].posted
    /\ rule.State = "DISABLED"

\* C3: a recheck that sees unhealthy targets re-arms the trigger with the
\* original timestamp it carried in: the payload attached after the re-arm
\* holds the same original timestamp, and the StillUnhealthy message shows
\* that timestamp beside the current time.
C3_OriginalTimestampKept ==
    (RecheckSignal(inv.event) /\ SawUnhealthy /\ SchedulerOk(inv.calls)
        /\ inv.event.detail.original_timestamp # NoTs)
        => /\ Phases(inv.calls) = <<"StillUnhealthy">>
           /\ Notes(inv.calls)[1].msg.original = inv.event.detail.original_timestamp
           /\ Notes(inv.calls)[1].msg.time = inv.snapshot.timestamp
           /\ rule.Targets # <<>>
           /\ rule.Targets[1].Input.detail.original_timestamp
                = inv.event.detail.original_timestamp

\* an incident is open: an alarming AlarmSignal has just been processed
\* with unhealthy targets and the rule is enabled
IncidentOpened == Alarming(inv.event) /\ SawUnhealthy /\ rule.State = "ENABLED"

RecheckRan == inv.done /\ RecheckSignal(inv.event) /\ Probed(inv.calls)

AllHealthy == HealthStatus(registry, now).unhealthy_count = 0

\* C4: with the rule firing while enabled and every probe and scheduler
\* call succeeding, an opened incident leads to a recheck, and once the
\* targets are healthy it leads to a Recovered notification with the rule
\* disabled (or to the targets being unhealthy again).
C4_RecheckUntilRecovered ==
    /\ IncidentOpened ~> RecheckRan
    /\ (rule.State = "ENABLED" /\ AllHealthy)
          ~> (~AllHealthy \/ (Phases(inv.calls) = <<"Recovered">> /\ rule.State = "DISABLED"))

\* C5: arm called on a trigger that an earlier arm enabled leaves one
\* enabled trigger with one target entry, whose payload carries the channel
\* of this call.
C5_ArmTwiceOneTrigger ==
    (inv.done /\ SchedCalls(inv.calls) = <<"setup_retrigger">>
        /\ SchedulerOk(inv.calls)
        /\ inv.pre.exists /\ inv.pre.State = "ENABLED")
        => /\ rule.exists /\ rule.State = "ENABLED"
           /\ Len(rule.Targets) = 1
           /\ rule.Targets[1].Id = "1"
           /\ rule.Targets[1].Input.detail.channel
                = PyOr(Ops(inv.calls, {"setup_retrigger"})[1].arg_channel, SLACK_CHANNEL)

\* what the rest of an invocation did: the scheduler operations called,
\* the rule it left, and the exception it ended with
Outcome(w) == [sched |-> SchedCalls(w.calls), rule |-> w.rule, exc |-> w.exc]

\* C6: for every event, in every state, the scheduler operations called,
\* the rule left behind and the success status are the same whether the
\* post to Slack is accepted or not, and the same with no token configured;
\* without a token nothing is posted, the call answers False and the same
\* notifications are attempted.
C6_NotifyOutcomeIrrelevant ==
    \A ev \in Events, orc \in { o \in Oracles : o.chat_postMessage } :
        LET this == lambda_handler(rule, ev, registry, SLACK_BOT_TOKEN, orc, now)
            flip == lambda_handler(rule, ev, registry, SLACK_BOT_TOKEN,
                                   [orc EXCEPT !.chat_postMessage = ~@], now)
            off  == lambda_handler(rule, ev, registry, "", orc, now)
        IN /\ Outcome(this) = Outcome(flip)
           /\ Outcome(this) = Outcome(off)
           /\ Phases(this.calls) = Phases(off.calls)
           /\ \A i \in 1 .. Len(Notes(off.calls)) :
                 ~Notes(off.calls)[i].posted /\ ~Notes(off.calls)[i].ok

C6_Witness ==
    /\ inv.done /\ SLACK_BOT_TOKEN = ""
    /\ Phases(inv.calls) = <<"StillUnhealthy">>
    /\ ~Notes(inv.calls)[1].posted /\ ~Notes(inv.calls)[1].ok
    /\ SchedCalls(inv.calls) = <<"setup_retrigger">>
    /\ inv.exc = ""

\* C7: an invocation whose probe raises ends with the probe's error, has
\* attempted exactly one notification, the error report on the default
\* channel, has called neither arm nor disarm and leaves the rule as it
\* was.
C7_ProbeFailure ==
    (inv.done /\ ProbeFailed(inv.calls))
        => /\ inv.exc = "ProbeError"
           /\ Phases(inv.calls) = <<"Error">>
           /\ Notes(inv.calls)[1].msg.alarm = "ProbeError"
           /\ Notes(inv.calls)[1].arg_channel = NullVal
           /\ Notes(inv.calls)[1].posted => Notes(inv.calls)[1].channel = SLACK_CHANNEL
           /\ SchedCalls(inv.calls) = <<>>
           /\ rule = inv.pre

C7_Witness ==
    /\ inv.done /\ ProbeFailed(inv.calls)
    /\ RecheckSignal(inv.event)
    /\ inv.event.detail.channel = OtherChannel
    /\ AllHealthy
    /\ inv.pre.exists /\ inv.pre.State = "ENABLED"
    /\ Notes(inv.calls)[1].posted

\* C8: an alarming AlarmSignal whose snapshot has no unhealthy target, and
\* a DirectInvocation with any snapshot, attempt exactly one notification
\* (false alarm, Summary), call neither arm nor disarm and leave the rule
\* as it was.
C8_NoSchedulerChange ==
    (inv.done /\ Probed(inv.calls)
        /\ (DirectInvocation(inv.event) \/ (Alarming(inv.event) /\ SawHealthy)))
        => /\ Phases(inv.calls)
                = IF DirectInvocation(inv.event) THEN <<"Summary">> ELSE <<"FalseAlarm">>
           /\ SchedCalls(inv.calls) = <<>>
           /\ SchedulerOk(inv.calls)
           /\ rule = inv.pre
           /\ inv.exc = ""

C8_Witness ==
    /\ Alarming(inv.event) /\ SawHealthy
    /\ Phases(inv.calls) = <<"FalseAlarm">>
    /\ inv.pre.exists /\ inv.pre.State = "ENABLED"
    /\ rule = inv.pre

\* C9: disarm called on a rule that is already disabled, or does not
\* exist, leaves the rule as it was and raises nothing: the recheck that
\* called it returns successfully.
C9_DisarmIdempotent ==
    (inv.done /\ SchedCalls(inv.calls) = <<"disable_retrigger_rule">>
        /\ (~inv.pre.exists \/ inv.pre.State = "DISABLED"))
        => /\ rule = inv.pre
           /\ inv.exc = ""
           /\ Phases(inv.calls) = <<"Recovered">>

C9_Witness ==
    /\ inv.done /\ SchedCalls(inv.calls) = <<"disable_retrigger_rule">>
    /\ inv.pre.exists /\ inv.pre.State = "DISABLED"
    /\ rule.State = "DISABLED"
    /\ inv.exc = ""

Handlers == {"handle_retrigger_event", "handle_alarm_event", "handle_direct_check"}

\* the handler the three event shapes call for
HandlerFor(event) ==
    IF RecheckSignal(event) THEN "handle_retrigger_event"
    ELSE IF AlarmSignal(event) THEN "handle_alarm_event"
    ELSE "handle_direct_check"

\* the transition table: the notifications and scheduler operations of an
\* event and a snapshot
TableAction(event, snapshot) ==
    IF RecheckSignal(event)
    THEN IF snapshot.unhealthy_count > 0
         THEN <<(<<"StillUnhealthy">>), (<<"setup_retrigger">>)>>
         ELSE <<(<<"Recovered">>), (<<"disable_retrigger_rule">>)>>
    ELSE IF AlarmSignal(event)
         THEN IF ~Alarming(event) THEN <<(<<>>), (<<>>)>>
              ELSE IF snapshot.unhealthy_count > 0
                   THEN <<(<<"InitialAlert">>), (<<"setup_retrigger">>)>>
                   ELSE <<(<<"FalseAlarm">>), (<<>>)>>
         ELSE <<(<<"Summary">>), (<<>>)>>

\* C10: every payload enters exactly one handler, the one of its shape
\* (recheck first, then alarm, otherwise direct), and with a snapshot
\* obtained the notifications attempted and scheduler operations called are
\* those of the table for (event, snapshot), whatever the rule's state.
C10_RoutingDeterministic ==
    /\ \A ev \in Events, orc \in Oracles :
          LET w == lambda_handler(rule, ev, registry, SLACK_BOT_TOKEN, orc, now)
          IN /\ Len(Ops(w.calls, Handlers)) = 1
             /\ w.calls[1].op = HandlerFor(ev)
             /\ orc.describe_target_health
                  => <<Phases(w.calls), SchedCalls(w.calls)>>
                        = TableAction(ev, HealthStatus(registry, now))
    /\ inv.done
          => /\ Len(Ops(inv.calls, Handlers)) = 1
             /\ inv.calls[1].op = HandlerFor(inv.event)
             /\ ~ProbeFailed(inv.calls)
                  => <<Phases(inv.calls), SchedCalls(inv.calls)>>
                        = TableAction(inv.event, inv.snapshot)

C10_Witness ==
    /\ inv.done
    /\ RecheckSignal(inv.event) /\ inv.event.Records # <<>>
    /\ inv.calls[1].op = "handle_retrigger_event"
    /\ inv.pre.exists /\ inv.pre.State = "ENABLED"
    /\ Phases(inv.calls) = <<"StillUnhealthy">>

\* C11: every snapshot the probe returns has healthy_count plus the
\* number of listed unhealthy targets equal to total_targets, and
\* unhealthy_count equal to that number; the targets listed are exactly
\* those whose state is not "healthy", in the registry's order.
C11_SnapshotCounts ==
    (inv.done /\ Probed(inv.calls))
        => LET h == inv.snapshot
               bad == { i \in 1 .. Len(registry) : registry[i] # "healthy" }
           IN /\ h.healthy_count + Len(h.unhealthy_targets) = h.total_targets
              /\ h.unhealthy_count = Len(h.unhealthy_targets)
              /\ h.total_targets = Len(registry)
              /\ h.unhealthy_count = Cardinality(bad)
              /\ { h.unhealthy_targets[k].target_id : k \in 1 .. Len(h.unhealthy_targets) } = bad
              /\ \A k \in 1 .. Len(h.unhealthy_targets) :
                    /\ h.unhealthy_targets[k].state = registry[h.unhealthy_targets[k].target_id]
                    /\ k > 1 => h.unhealthy_targets[k - 1].target_id
                                    < h.unhealthy_targets[k].target_id

C11_Witness ==
    /\ inv.done /\ Probed(inv.calls)
    /\ inv.snapshot.total_targets = 4
    /\ inv.snapshot.healthy_count = 2
    /\ Len(inv.snapshot.unhealthy_targets) = 2
    /\ inv.snapshot.unhealthy_targets[1].state = "draining"
    /\ inv.snapshot.unhealthy_targets[2].state = "unhealthy"

\* C12: an AlarmSignal whose state is not ALARM does nothing: no probe,
\* no notification, neither arm nor disarm; the rule is left as it was and
\* the invocation returns successfully.
C12_NonAlarmingIgnored ==
    (inv.done /\ AlarmSignal(inv.event) /\ ~Alarming(inv.event))
        => /\ Ops(inv.calls, {"describe_target_health"}) = <<>>
           /\ Notes(inv.calls) = <<>>
           /\ SchedCalls(inv.calls) = <<>>
           /\ Ops(inv.calls, {"put_rule", "put_targets", "disable_rule"}) = <<>>
           /\ inv.snapshot = NoSnapshot
           /\ rule = inv.pre
           /\ inv.exc = ""

C12_Witness ==
    /\ inv.done /\ AlarmSignal(inv.event) /\ inv.event.Records[1] = "OK"
    /\ ~AllHealthy
    /\ inv.pre.exists /\ inv.pre.State = "ENABLED"
    /\ rule = inv.pre
    /\ inv.exc = ""

AllDone == \A p \in Procs : running.proc[p].pc = "done"

\* C13: once an alarm invocation and a recheck invocation that ran side by
\* side have both returned, the rule is not disabled if the most recent
\* probe saw unhealthy targets, and there is one rule, of the one name.
C13_OverlapConverges ==
    AllDone
        => /\ running.recent.unhealthy_count > 0
                => (rule.exists /\ rule.State = "ENABLED")
           /\ rule.Name = RULE_NAME
           /\ Len(rule.Targets) <= 1

\* the positions in the log of the boto3 calls on the rule that failed
FailedSchedCalls(calls) ==
    { i \in 1 .. Len(calls) :
        calls[i].op \in {"put_rule", "put_targets", "disable_rule"} /\ ~calls[i].ok }

\* C14: when a call on the rule made by arm or disarm fails, the
\* invocation still returns without an exception, no error notification
\* is sent, and the notification of that invocation was attempted before
\* the failing call.
C14_SchedulerFailureSwallowed ==
    (inv.done /\ FailedSchedCalls(inv.calls) # {})
        => /\ inv.exc = ""
           /\ \A j \in 1 .. Len(Phases(inv.calls)) : Phases(inv.calls)[j] # "Error"
           /\ Len(Notes(inv.calls)) = 1
           /\ \A i \in FailedSchedCalls(inv.calls) :
                 \E j \in 1 .. i - 1 : inv.calls[j].op = "send_slack_message"

C14_Witness ==
    /\ inv.done
    /\ \E i \in FailedSchedCalls(inv.calls) : inv.calls[i].op = "put_rule"
    /\ Phases(inv.calls) = <<"InitialAlert">>
    /\ inv.exc = ""
    /\ rule = inv.pre

C14_WitnessDisarm ==
    /\ inv.done
    /\ \E i \in FailedSchedCalls(inv.calls) : inv.calls[i].op = "disable_rule"
    /\ Phases(inv.calls) = <<"Recovered">>
    /\ inv.exc = ""
    /\ inv.pre.exists /\ inv.pre.State = "ENABLED" /\ rule = inv.pre

\* the positions in the log of the lifecycle notifications attempted
LifecycleAt(calls) ==
    { j \in 1 .. Len(calls) :
        calls[j].op = "send_slack_message" /\ calls[j].msg.phase # "Error" }

\* the message gives the counts of the snapshot h (the false alarm text
\* gives no counts: it says that all targets are healthy)
Reports(msg, h) ==
    IF msg.phase = "FalseAlarm"
    THEN h.unhealthy_count = 0
    ELSE /\ msg.total = h.total_targets
         /\ msg.healthy = h.healthy_count
         /\ msg.unhealthy = h.unhealthy_count
         /\ msg.phase \in {"InitialAlert", "StillUnhealthy"}
               => msg.targets = h.unhealthy_targets

\* C15: in every invocation a lifecycle notification comes after the one
\* successful probe of that invocation and reports the snapshot taken
\* from the registry as it is during the invocation; a call of arm or
\* disarm comes after the notification attempt, and is decided by that
\* same snapshot.
C15_ProbeNotifyAct ==
    inv.done
        => /\ \A j \in LifecycleAt(inv.calls) :
                 /\ \E i \in 1 .. j - 1 :
                       inv.calls[i].op = "describe_target_health" /\ inv.calls[i].ok
                 /\ Len(Ops(inv.calls, {"describe_target_health"})) = 1
                 /\ Reports(inv.calls[j].msg, HealthStatus(registry, now))
           /\ \A i \in 1 .. Len(inv.calls) :
                 inv.calls[i].op \in {"setup_retrigger", "disable_retrigger_rule"}
                     => /\ \E j \in LifecycleAt(inv.calls) : j < i
                        /\ inv.calls[i].op = "setup_retrigger"
                              <=> HealthStatus(registry, now).unhealthy_count > 0

C15_Witness ==
    /\ inv.done /\ RecheckSignal(inv.event)
    /\ [i \in 1 .. Len(inv.calls) |-> inv.calls[i].op]
          = <<"handle_retrigger_event", "describe_target_health",
              "send_slack_message", "disable_retrigger_rule", "disable_rule">>
    /\ inv.calls[3].msg.phase = "Recovered"
    /\ inv.calls[3].msg.total = 3 /\ inv.calls[3].msg.healthy = 3
    /\ Len(registry) = 3

\* C15, for invocations that overlap: each reports the snapshot of its own
\* probe, whatever the registry has become since
C15_OwnSnapshot ==
    \A p \in Procs :
        \A j \in LifecycleAt(running.proc[p].calls) :
            Reports(running.proc[p].calls[j].msg, HealthStatus(running.proc[p].resp, now))

\* the channel of the incident a RecheckSignal belongs to: the one it
\* carries, the default one when it carries none
CarriedChannel(event) ==
    IF event.detail.channel \in {Absent, NullVal}
    THEN SLACK_CHANNEL
    ELSE event.detail.channel

\* C16: the notification of a recheck is addressed to the channel the
\* RecheckSignal carries, and when the recheck re-arms, the payload
\* attached to the rule carries that same channel; the default channel
\* stands for a missing one in both.
C16_ChannelKept ==
    (inv.done /\ RecheckSignal(inv.event) /\ Probed(inv.calls) /\ SchedulerOk(inv.calls))
        => /\ Len(Notes(inv.calls)) = 1
           /\ Notes(inv.calls)[1].posted
                 => Notes(inv.calls)[1].channel = CarriedChannel(inv.event)
           /\ inv.snapshot.unhealthy_count > 0
                 => /\ rule.Targets # <<>>
                    /\ rule.Targets[1].Input.detail.channel = CarriedChannel(inv.event)

\* C16, the part about the notification alone
C16_NotificationChannel ==
    (inv.done /\ RecheckSignal(inv.event) /\ Probed(inv.calls))
        => /\ Len(Notes(inv.calls)) = 1
           /\ Notes(inv.calls)[1].posted
                 => Notes(inv.calls)[1].channel = CarriedChannel(inv.event)

\* an invocation has entered setup_retrigger and has not returned
ArmInProgress ==
    \E p \in Procs :
        /\ running.proc[p].pc = "run"
        /\ Ops(running.proc[p].calls, {"setup_retrigger"}) # <<>>

\* C17: whenever no call of arm is in progress, a rule that is enabled has
\* one target whose payload is a RecheckSignal with an original timestamp
\* and a channel.
C17_EnabledHasPayload ==
    (~ArmInProgress /\ rule.exists /\ rule.State = "ENABLED")
        => /\ Len(rule.Targets) = 1
           /\ RecheckSignal(rule.Targets[1].Input)
           /\ rule.Targets[1].Input.detail.original_timestamp \in Times
           /\ rule.Targets[1].Input.detail.channel \in {SLACK_CHANNEL, OtherChannel}

\* the invocation i is a recheck that attempted a notification of its own
RecheckNoted(i) ==
    /\ i.done /\ RecheckSignal(i.event)
    /\ \E j \in 1 .. Len(Notes(i.calls)) :
          Notes(i.calls)[j].msg.phase \in {"StillUnhealthy", "Recovered"}

\* C18: after a recheck has attempted a Recovered notification, the next
\* invocation is not a recheck that attempts a StillUnhealthy or Recovered
\* notification: none is attempted before an alarming AlarmSignal has
\* armed the trigger again.
C18_RecoveredTerminal ==
    [][(RecheckNoted(inv) /\ Phases(inv.calls) = <<"Recovered">>)
          => ~RecheckNoted(inv')]_vars

=============================================================================
